---- MODULE Spec2Model ----
(***************************************************************************)
(* The resilient push-API websocket session of push-api-client.            *)
(*                                                                         *)
(* Two client generations are modelled side by side, selected by the       *)
(* variable "variant":                                                     *)
(*   "secret" - the v3 client that authenticates with a static secret      *)
(*              (src/unnamed/part_001, src/http_requests.go:270-478)       *)
(*   "bearer" - the v2 client that authenticates with a minted access      *)
(*              token (src/main.go)                                        *)
(* The main goroutine and the read loop are one sequential thread of       *)
(* control (main starts messageReadLoop and then only waits); its position *)
(* is "pc".  The peer and the network are the environment: every dial and  *)
(* every blocking read draws its outcome from a small set.                 *)
(*                                                                         *)
(* Spec is that thread together with the server.  ConcurrentSpec adds the  *)
(* two goroutines that run beside it: keepAliveLoop ("kaPc") and the       *)
(* signal handler armed by setupSubscriptionRemoval ("sigPc").             *)
(***************************************************************************)
EXTENDS Integers, Sequences, FiniteSets, TLC

\* ---------------------------------------------------------------- bounds
MaxToken == 2      \* reconnect tokens are 1..MaxToken, Nil is uuid.Nil
MaxAttempts == 3   \* websocket upgrade requests made in one behaviour
MaxEvents == 2     \* push events the server emits in one behaviour
ConcurrentMaxEvents == 1   \* the same in the runs of ConcurrentSpec
ConcurrentMaxAttempts == 2 \* upgrade requests in the runs of ConcurrentSpec

\* ------------------------------------------------------ program constants
CloseMissingSecret == 4000
CloseInvalidSecret == 4001
CloseNotAuthorized == 4002
CloseMaxNumSubscribers == 4003
CloseMaxNumSubscriptions == 4004
CloseInvalidReconnectToken == 4005
CloseMissingSubscriptionID == 4006
CloseUnknownSubscriptionID == 4007
CloseInternalError == 4500
CloseAbnormalClosure == 1006
CloseUnlisted == 4999
StatusUnauthorized == 401
StatusTooManyRequests == 429
StatusInternalServerError == 500
StatusOK == 200
StatusUnprocessableEntity == 422
RateLimitBackoffSeconds == 30
ConnectBackoffSeconds == 5

Nil == 0
Tokens == 1..MaxToken
Variants == {"secret", "bearer"}

\* The close codes the peer is let to send: a plain closed socket (gorilla reports
\* an unexpected EOF as CloseError 1006), three listed application codes and one
\* code of the application range that the client does not list.
CloseCodes ==
  {CloseAbnormalClosure, CloseNotAuthorized, CloseInvalidReconnectToken,
   CloseUnknownSubscriptionID, CloseUnlisted}

\* The close codes the specification calls fatal.
FatalCloseCodes ==
  {CloseNotAuthorized, CloseMaxNumSubscribers, CloseMaxNumSubscriptions,
   CloseMissingSubscriptionID, CloseUnknownSubscriptionID}

\* Values of the --reconnect-token flag: "" (0), a string that is no UUID (-1),
\* or the textual form of token 1 (1).
FlagValues == {0, -1, 1}

\* Subscription identities in their textual form: the id the server gives a
\* subscription this run creates, and the id of one that existed before.
UUIDs == {"sub-new", "sub-old"}
NilUUID == "00000000-0000-0000-0000-000000000000"
SubscriptionIDs == {"sub-new"}

VARIABLES
  variant,               \* which client generation runs
  reconnectTokenFlag,    \* *reconnectTokenFlag
  subscriptionIDOrName,  \* global subscriptionIDOrName
  currReconnectToken,    \* global currReconnectToken
  conn,                  \* global conn: 0 is nil, else the id of a connection
  pc,                    \* position of the main / read-loop thread
  caller,                \* who called setupPushServiceConnection
  reconnectToken,        \* parameter reconnectToken of the setup functions
  subscriptionArg,       \* parameter subscriptionIDOrName of the setup functions
  accessToken,           \* bearer variant: the access token in use (its generation)
  minted,                \* number of access tokens minted so far
  newConn,               \* setupPushServiceConnection's local conn
  backoffSeconds,        \* argument of the time.Sleep in progress
  readErr,               \* err of the most recent conn.ReadMessage
  dialErr,               \* err of this loop iteration's connectToWebsocket
  initMsg,               \* the frame readInitMessage returned last
  exitCode,              \* -1 while the process runs, else its exit status
  exitMsg,               \* what the process reported when it exited
  nAttempts,             \* number of upgrade requests made
  lastReq,               \* the most recent upgrade request
  reqSubs,               \* every subscription_id ever put in an upgrade request
  firstFramePending,     \* no frame has been read yet from the newest connection
  initConsumed,          \* frames of the newest connection read by readInitMessage
  delivered,             \* frames handed to printJsonWithTag("MSG", ...)
  emitted,               \* server: number of push events emitted
  srvToken,              \* server: reconnect token it issued last
  srvCursor,             \* server: last event sent to the subscriber
  subStart,              \* server: the cursor the session's first connection began at
  srvOK,                 \* server: every init frame so far was well formed with a token
  message,               \* messageReadLoop's local message: the frame read last
  dropped,               \* a frame of the current connection failed to decode
  readFrom,              \* the handle the most recent conn.ReadMessage was called on
  retired,               \* the handles that were the global conn and were replaced
  closeReason,           \* readInitMessage's errMsg for the CloseError it read
  nReports,              \* number of fatal errors the process has reported
  kaPc,                  \* keepAliveLoop: "off" (not started), "sleep", "write", "logError"
  kaConn,                \* keepAliveLoop: the handle its WriteControl is running on
  sigPc,                 \* signal handler: "off", "armed", or the step it is about to take
  handlerLog,            \* the requests the signal handler has made, in order
  handlerErr,            \* whether the handler's most recent request failed
  subscriptionFileFlag,  \* *subscriptionFileFlag
  subscriptionIDFlag,    \* *subscriptionIDFlag
  registerResp,          \* server: its response to POST /subscription
  alreadyExists          \* registerOrUpdateSubscription's local alreadyExists

vars ==
  <<variant, reconnectTokenFlag, subscriptionIDOrName, currReconnectToken, conn,
    pc, caller, reconnectToken, subscriptionArg, accessToken, minted, newConn,
    backoffSeconds, readErr, dialErr, initMsg, exitCode, exitMsg, nAttempts,
    lastReq, reqSubs, firstFramePending, initConsumed, delivered, emitted,
    srvToken, srvCursor, subStart, srvOK, message, dropped, readFrom, retired,
    closeReason, nReports, kaPc, kaConn, sigPc, handlerLog, handlerErr, subscriptionFileFlag,
    subscriptionIDFlag, registerResp, alreadyExists>>

flagVars == <<variant, reconnectTokenFlag, subscriptionFileFlag, subscriptionIDFlag>>
globalVars == <<flagVars, subscriptionIDOrName, registerResp, alreadyExists>>
serverVars == <<emitted, srvToken, srvCursor, subStart, srvOK>>
requestVars == <<nAttempts, lastReq, reqSubs>>
connVars == <<firstFramePending, initConsumed, initMsg>>
readVars == <<message, dropped, readFrom, retired, closeReason>>
keepAliveVars == <<kaPc, kaConn>>
signalVars == <<sigPc, handlerLog, handlerErr>>

\* ------------------------------------------------------------ pure parts

\* uuid.FromString: the zero UUID (and an ignored error) for a string that is no UUID.
FromString(s) == IF s \in Tokens THEN s ELSE Nil

NoErr == [type |-> "nil", Code |-> 0]
CloseError(code) == [type |-> "*websocket.CloseError", Code |-> code]
IOError == [type |-> "error", Code |-> 0]
NoDialErr == [type |-> "nil", HttpStatus |-> 0]

\* The type assertion err.(*websocket.CloseError).
IsCloseError(e) == e.type = "*websocket.CloseError"

\* Frames: an init message carrying a reconnect token, a push event, or bytes
\* that are no JSON object.
InitFrame(t) == [json |-> "init", token |-> t, ev |-> 0]
PushFrame(e) == [json |-> "push", token |-> Nil, ev |-> e]
GarbageFrame == [json |-> "garbage", token |-> Nil, ev |-> 0]
NoFrame == [json |-> "none", token |-> Nil, ev |-> 0]

\* json.Unmarshal(initMsg, &m) into InitResponseMessage: any JSON object decodes,
\* absent fields keep their zero value.
UnmarshalInit(f) ==
  IF f.json = "garbage"
  THEN [err |-> TRUE, ReconnectToken |-> Nil]
  ELSE [err |-> FALSE, ReconnectToken |-> f.token]

\* tryUnmarshalJSONAsPushMessage: TRUE when json.Unmarshal returns an error.
tryUnmarshalJSONAsPushMessage(f) == f.json = "garbage"

\* The upgrade request connectToWebsocket builds: the URL's query parameters in
\* the order they are appended (reconnect_token only for a token other than
\* uuid.Nil), the request headers, and the values they carry.
UpgradeRequest(sub, token, cred) ==
  [subscription_id |-> sub, reconnect_token |-> token, cred |-> cred,
   query |-> <<"subscription_id">>
             \o (IF token # Nil THEN <<"reconnect_token">> ELSE <<>>)
             \o cred.query,
   header |-> cred.header]

\* No credential: the value of the request record before the first attempt.
NoCredential == [header |-> {}, query |-> <<>>, access_token |-> 0]

\* The error connectToWebsocket returns for a failed dial: with an HTTP response
\* it is a WebsocketSetupHTTPError VALUE, without one the dialer's error.
connectToWebsocketErr(outcome) ==
  IF outcome = 0
  THEN [type |-> "error", HttpStatus |-> 0]
  ELSE [type |-> "WebsocketSetupHTTPError", HttpStatus |-> outcome]

\* The type switch of websocketConnectLoop on a dial error.  Its first case is
\* the POINTER type *WebsocketSetupHTTPError; every other dynamic type takes the
\* default arm.  In the secret client a 401 makes the loop return an error.
websocketConnectLoopSwitchSecret(err) ==
  IF err.type = "*WebsocketSetupHTTPError"
  THEN IF err.HttpStatus = StatusUnauthorized
       THEN [do |-> "return", seconds |-> 0]
       ELSE IF err.HttpStatus = StatusTooManyRequests
            THEN [do |-> "sleep", seconds |-> RateLimitBackoffSeconds]
            ELSE [do |-> "retry", seconds |-> 0]
  ELSE [do |-> "sleep", seconds |-> ConnectBackoffSeconds]

\* The same switch in the bearer client: a 401 makes the loop request a new
\* access token and go round without sleeping.
websocketConnectLoopSwitchBearer(err) ==
  IF err.type = "*WebsocketSetupHTTPError"
  THEN IF err.HttpStatus = StatusUnauthorized
       THEN [do |-> "refresh", seconds |-> 0]
       ELSE IF err.HttpStatus = StatusTooManyRequests
            THEN [do |-> "sleep", seconds |-> RateLimitBackoffSeconds]
            ELSE [do |-> "retry", seconds |-> 0]
  ELSE [do |-> "sleep", seconds |-> ConnectBackoffSeconds]

\* Mutant: an error that is no *WebsocketSetupHTTPError makes the loop give up.
websocketConnectLoopSwitch_DefaultReturns(v, err) ==
  IF err.type = "*WebsocketSetupHTTPError"
  THEN websocketConnectLoopSwitchBearer(err)
  ELSE [do |-> "return", seconds |-> 0]

\* Mutant: the first case matches a WebsocketSetupHTTPError value as well.
websocketConnectLoopSwitch_CaseMatches(v, err) ==
  LET e == IF err.type = "WebsocketSetupHTTPError"
           THEN [err EXCEPT !.type = "*WebsocketSetupHTTPError"]
           ELSE err
  IN  IF v = "secret"
      THEN websocketConnectLoopSwitchSecret(e)
      ELSE websocketConnectLoopSwitchBearer(e)

\* websocketConnectLoop's decision on the error of connectToWebsocket.
websocketConnectLoopSwitch(v, err) ==
  IF v = "secret"
  THEN websocketConnectLoopSwitchSecret(err)
  ELSE websocketConnectLoopSwitchBearer(err)

\* The close codes that have a named constant.
KnownCloseCodes ==
  {CloseMissingSecret, CloseInvalidSecret, CloseNotAuthorized, CloseMaxNumSubscribers,
   CloseMaxNumSubscriptions, CloseInvalidReconnectToken, CloseMissingSubscriptionID,
   CloseUnknownSubscriptionID, CloseInternalError}

\* The application range of close codes (RFC 6455).
ApplicationCloseCodes == 4000..4999

NoReason == [errMsg |-> "", code |-> 0]

\* Mutant: the default arm reports an unrecognized code without saying which.
readInitMessageErrMsg_CodeLost(code) ==
  CASE code = CloseUnknownSubscriptionID ->
         [errMsg |-> "Subscription ID is not registered on server", code |-> 0]
    [] code = CloseMissingSubscriptionID ->
         [errMsg |-> "Missing subscription ID or name in setup request", code |-> 0]
    [] OTHER ->
         [errMsg |-> "Server sent unrecognized error code", code |-> 0]

\* The switch of readInitMessage on closeErr.Code: the errMsg it builds, and the
\* code the message is formatted with (0 when the message names no code).
readInitMessageErrMsg(code) ==
  CASE code = CloseUnknownSubscriptionID ->
         [errMsg |-> "Subscription ID is not registered on server", code |-> 0]
    [] code = CloseMissingSubscriptionID ->
         [errMsg |-> "Missing subscription ID or name in setup request", code |-> 0]
    [] code = CloseMaxNumSubscribers ->
         [errMsg |-> "The max number of concurrent subscribers for the account has been exceeded",
          code |-> 0]
    [] code = CloseMaxNumSubscriptions ->
         [errMsg |-> "The max number of registered subscriptions for the account has been exceeded",
          code |-> 0]
    [] code = CloseInternalError ->
         [errMsg |-> "Unknown server error", code |-> 0]
    [] OTHER ->
         [errMsg |-> "Server sent unrecognized error code", code |-> code]

\* uuid.FromString on a subscription identifier: the UUID, or an error.
UUIDFromString(str) ==
  IF str \in UUIDs THEN [id |-> str, err |-> FALSE] ELSE [id |-> NilUUID, err |-> TRUE]

\* json.Unmarshal of a response body into struct{ID uuid.UUID}: a body that is
\* no JSON object is an error, an object without "id" leaves the zero UUID.
UnmarshalID(body) ==
  CASE body \in UUIDs -> [id |-> body, err |-> FALSE]
    [] body = "{}" -> [id |-> NilUUID, err |-> FALSE]
    [] OTHER -> [id |-> NilUUID, err |-> TRUE]

\* A response to POST /subscription; StatusCode 0 stands for no response at all.
RegisterResponse(status, location, body) ==
  [StatusCode |-> status, Location |-> location, Body |-> body]

RegisterStatusCodes ==
  {0, StatusOK, StatusUnprocessableEntity, StatusUnauthorized, StatusTooManyRequests,
   StatusInternalServerError}

RegisterResponses ==
  {RegisterResponse(st, loc, b) :
     st \in RegisterStatusCodes,
     loc \in {"", "not-a-uuid", "sub-old"},
     b \in {"sub-new", "{}", "<html>"}}

\* The result triple of registerSubscription.
Result(id, exists, err) == [id |-> id, alreadyExists |-> exists, err |-> err]

\* Mutant: a 422 without a usable Location header reports alreadyExists false.
registerSubscription_422AsOther(resp) ==
  CASE resp.StatusCode = 0 -> Result(NilUUID, FALSE, TRUE)
    [] resp.StatusCode = StatusUnprocessableEntity ->
         IF UUIDFromString(resp.Location).err
         THEN Result(NilUUID, FALSE, TRUE)
         ELSE Result(resp.Location, TRUE, FALSE)
    [] resp.StatusCode = StatusOK ->
         Result(UnmarshalID(resp.Body).id, FALSE, UnmarshalID(resp.Body).err)
    [] OTHER -> Result(NilUUID, FALSE, TRUE)

\* registerSubscription, from the response of the POST on.
registerSubscription(resp) ==
  IF resp.StatusCode = 0
  THEN Result(NilUUID, FALSE, TRUE)
  ELSE IF resp.StatusCode = StatusUnprocessableEntity
  THEN IF resp.Location # ""
       THEN IF UUIDFromString(resp.Location).err
            THEN Result(NilUUID, TRUE, TRUE)
            ELSE Result(UUIDFromString(resp.Location).id, TRUE, FALSE)
       ELSE Result(NilUUID, TRUE, TRUE)
  ELSE IF resp.StatusCode # StatusOK
  THEN Result(NilUUID, FALSE, TRUE)
  ELSE Result(UnmarshalID(resp.Body).id, FALSE, UnmarshalID(resp.Body).err)

\* The session state of the specification, read off the thread's position.  From
\* the return of main's setupPushServiceConnection on, the handshake is done and
\* the session is Active while main starts the two loops.
State ==
  CASE pc \in {"registerOrUpdateSubscription", "main"} -> "Idle"
    [] pc \in {"requestAccessToken", "websocketConnectLoop", "sleep"} -> "Connecting"
    [] pc = "readInitMessage" -> "AwaitingHandshake"
    [] pc \in {"goKeepAliveLoop", "goMessageReadLoop", "messageReadLoop"} -> "Active"
    [] pc = "reconnect" -> "Reconnecting"
    [] pc = "logFatalln" -> "Terminated"
    [] pc = "exit" -> IF exitCode = 0 \/ sigPc = "killed" THEN "Exited" ELSE "Terminated"

\* ------------------------------------------------------------------ Init

\* Whether main calls setupSubscriptionRemoval: the bearer client always does,
\* the secret client does unless registerOrUpdateSubscription updated a
\* subscription that existed already (wasUpdated).
SignalHandlerArmed(v, wasUpdated) == v = "bearer" \/ ~wasUpdated

\* The responses to the POST of a subscription that did not exist yet, and of
\* one whose name was registered before.
CreatedResponse == RegisterResponse(StatusOK, "", "sub-new")
ExistsResponse == RegisterResponse(StatusUnprocessableEntity, "sub-old", "{}")

\* What is the same at the start of main and on reaching its call of
\* setupPushServiceConnection: flags parsed, (bearer) the first access token
\* minted, nothing connected.
Fresh ==
  /\ variant \in Variants
  /\ reconnectTokenFlag \in FlagValues
  /\ currReconnectToken = Nil
  /\ conn = 0
  /\ caller = "main"
  /\ reconnectToken = Nil
  /\ subscriptionArg = ""
  /\ accessToken = IF variant = "bearer" THEN 1 ELSE 0
  /\ minted = IF variant = "bearer" THEN 1 ELSE 0
  /\ newConn = 0
  /\ backoffSeconds = 0
  /\ readErr = NoErr
  /\ dialErr = NoDialErr
  /\ initMsg = NoFrame
  /\ exitCode = -1
  /\ exitMsg = ""
  /\ nAttempts = 0
  /\ lastReq = UpgradeRequest("", Nil, NoCredential)
  /\ reqSubs = {}
  /\ firstFramePending = FALSE
  /\ initConsumed = 0
  /\ delivered = <<>>
  /\ emitted = 0
  /\ srvToken \in {1, MaxToken}
  /\ srvCursor = 0
  /\ subStart = -1
  /\ srvOK = TRUE
  /\ message = NoFrame
  /\ dropped = FALSE
  /\ readFrom = 0
  /\ retired = {}
  /\ closeReason = NoReason
  /\ nReports = 0
  /\ kaPc = "off"
  /\ kaConn = 0
  /\ handlerLog = <<>>
  /\ handlerErr = FALSE

\* The flag combinations validateFlags lets through.
ValidFlags ==
  \/ subscriptionFileFlag # ""
  \/ subscriptionIDFlag # ""
  \/ reconnectTokenFlag # 0

\* The state on reaching main's call of registerOrUpdateSubscription.
Parsed ==
  /\ Fresh
  /\ pc = "registerOrUpdateSubscription"
  /\ subscriptionFileFlag \in {"", "spec.json"}
  /\ subscriptionIDFlag \in {"", "sub-old"}
  /\ ValidFlags
  /\ registerResp \in IF subscriptionFileFlag = ""
                      THEN {RegisterResponse(0, "", "")}
                      ELSE RegisterResponses
  /\ alreadyExists = FALSE
  /\ subscriptionIDOrName = ""
  /\ sigPc = "off"

\* The state on reaching main's call of setupPushServiceConnection after the
\* subscription of --subscription-file was registered: created, or updated
\* because it existed already.
Registered ==
  /\ Fresh
  /\ pc = "main"
  /\ subscriptionFileFlag = "spec.json"
  /\ subscriptionIDFlag = ""
  /\ registerResp \in {CreatedResponse, ExistsResponse}
  /\ alreadyExists = registerSubscription(registerResp).alreadyExists
  /\ subscriptionIDOrName = registerSubscription(registerResp).id
  /\ sigPc = IF SignalHandlerArmed(variant, alreadyExists) THEN "armed" ELSE "off"

\* The same with the subscription created and its removal armed.
Started ==
  /\ Registered
  /\ registerResp = CreatedResponse
  /\ subscriptionIDOrName \in SubscriptionIDs

\* The initial states of Spec, whose runs begin with the first connection setup.
Init == Started

\* --------------------------------------------------------------- actions

\* log.Fatalln / an error print followed by os.Exit: the failure is reported and
\* the process ends.
Exit(code, msg) ==
  /\ pc' = "exit"
  /\ exitCode' = code
  /\ exitMsg' = msg
  /\ nReports' = nReports + 1

\* The exit status of a failed setupPushServiceConnection: the secret client's
\* callers log.Fatalln (status 1); the bearer client exits inside the setup with 1.
SetupFailedExit(msg) == Exit(1, msg)

\* The global conn after a failed setupPushServiceConnection: the secret client's
\* callers assign the nil it returns before they log.Fatalln; the bearer client
\* exits inside the setup and assigns nothing.
SetupFailedConn == IF variant = "secret" THEN 0 ELSE conn

\* Mutant: main passes no reconnect token whatever the flag holds.
MainReconnectTokenArg_Dropped == Nil

\* main's arguments to setupPushServiceConnection: the parsed flag.
MainReconnectTokenArg == FromString(reconnectTokenFlag)

\* Mutant: the read loop reconnects with the flag's token instead of the stored one.
ReconnectTokenArg_FromFlag == FromString(reconnectTokenFlag)

\* messageReadLoop's arguments to setupPushServiceConnection.
ReconnectTokenArg == currReconnectToken

\* Mutant: a zero token in the init message leaves the stored token as it was.
StoredReconnectToken_KeepOnNil(m, old) ==
  IF m.ReconnectToken = Nil THEN old ELSE m.ReconnectToken

\* What setupPushServiceConnection stores after decoding the init message m.
StoredReconnectToken(m, old) == m.ReconnectToken

\* Mutant: connectToWebsocket never adds reconnect_token to the URL.
RequestToken_Omitted(token) == Nil

\* The reconnect_token connectToWebsocket puts in the URL (none for uuid.Nil).
RequestToken(token) == token

\* Mutant: the secret header and the access_token parameter are both attached.
Credential_Both ==
  [header |-> {"Abios-Secret"}, query |-> <<"access_token">>,
   access_token |-> accessToken]

\* The credential connectToWebsocket attaches: the Abios-Secret header, or the
\* access token appended to the URL as access_token.
Credential ==
  IF variant = "secret"
  THEN [header |-> {"Abios-Secret"}, query |-> <<>>, access_token |-> 0]
  ELSE [header |-> {}, query |-> <<"access_token">>, access_token |-> accessToken]

\* requestAccessToken succeeded: a fresh token.
Minted ==
  /\ minted' = minted + 1
  /\ accessToken' = minted + 1

\* What registerOrUpdateSubscription's caller does with an error: the secret
\* client's main ends the process, the bearer client has printed the error and
\* goes on with an empty identity.
OnRegistrationError == IF variant = "secret" THEN "fatal" ELSE "continue"

\* main's registerOrUpdateSubscription and setupSubscriptionRemoval: with
\* --subscription-file the subscription is registered and, when it exists
\* already, updated; else the identity is the one of --subscription-id.
RegisterOrUpdateSubscription ==
  /\ pc = "registerOrUpdateSubscription"
  /\ \E updated \in BOOLEAN :
       LET r == registerSubscription(registerResp)
           fromFile == subscriptionFileFlag # ""
           failed == fromFile /\ (r.err \/ (r.alreadyExists /\ ~updated))
           wasUpdated == fromFile /\ ~r.err /\ r.alreadyExists
       IN  /\ alreadyExists' = (fromFile /\ r.alreadyExists)
           /\ IF failed /\ OnRegistrationError = "fatal"
              THEN /\ Exit(1, "Failed to register or update subscription")
                   /\ UNCHANGED <<subscriptionIDOrName, sigPc>>
              ELSE /\ subscriptionIDOrName' =
                        IF ~fromFile THEN subscriptionIDFlag
                        ELSE IF r.err THEN ""
                        ELSE r.id
                   /\ sigPc' = IF SignalHandlerArmed(variant, wasUpdated)
                               THEN "armed"
                               ELSE "off"
                   /\ pc' = "main"
                   /\ UNCHANGED <<exitCode, exitMsg, nReports>>
  /\ UNCHANGED <<flagVars, registerResp, serverVars, requestVars, currReconnectToken,
                 conn, caller, reconnectToken, subscriptionArg, accessToken, minted,
                 newConn, backoffSeconds, readErr, dialErr, connVars, delivered,
                 readVars, keepAliveVars, handlerLog, handlerErr>>

\* main calls setupPushServiceConnection, which enters websocketConnectLoop.
Start ==
  /\ pc = "main"
  /\ pc' = "websocketConnectLoop"
  /\ caller' = "main"
  /\ reconnectToken' = MainReconnectTokenArg
  /\ subscriptionArg' = subscriptionIDOrName
  /\ UNCHANGED <<globalVars, serverVars, requestVars, currReconnectToken, conn,
                 accessToken, minted, newConn, backoffSeconds, readErr, dialErr,
                 exitCode, exitMsg, connVars, delivered, readVars, nReports,
                 keepAliveVars, signalVars>>

\* Dial outcomes: 101 the upgrade succeeded, 0 no HTTP response at all, else the
\* status of the HTTP response that rejected the upgrade.
DialOutcomes ==
  {101, 0, StatusUnauthorized, StatusTooManyRequests, StatusInternalServerError}

\* The server's side of a successful upgrade: it restores the subscriber's
\* delivery state when the request presents the token it issued last, and starts
\* a new subscriber (that sees only later events) otherwise.
Restored(req) == req.reconnect_token # Nil /\ req.reconnect_token = srvToken

\* Mutant: the loop gives up after its second failed attempt.
RetryAllowed_Twice(n) == n < 2

\* websocketConnectLoop is a for loop without a condition and without a count of
\* its iterations: after n attempts it still goes round.
RetryAllowed(n) == TRUE

\* Mutant: the dialed handle is assigned to the global conn at once.
DialedConn_Global(c) == c

\* The global conn after a successful dial of handle c: websocketConnectLoop and
\* setupPushServiceConnection hold the handle in local variables named conn, the
\* global is not assigned.
DialedConn(c) == conn

\* One iteration of websocketConnectLoop: connectToWebsocket and the switch on
\* its error.
Connect ==
  /\ pc = "websocketConnectLoop"
  /\ nAttempts < MaxAttempts
  /\ \E outcome \in DialOutcomes :
       LET req == UpgradeRequest(subscriptionArg, RequestToken(reconnectToken), Credential)
           err == connectToWebsocketErr(outcome)
           d == websocketConnectLoopSwitch(variant, err)
       IN  /\ nAttempts' = nAttempts + 1
           /\ dialErr' = IF outcome = 101 THEN NoDialErr ELSE err
           /\ lastReq' = req
           /\ reqSubs' = reqSubs \cup {req.subscription_id}
           /\ IF outcome = 101
              THEN /\ newConn' = nAttempts + 1
                   /\ conn' = DialedConn(nAttempts + 1)
                   /\ firstFramePending' = TRUE
                   /\ initConsumed' = 0
                   /\ pc' = "readInitMessage"
                   /\ srvCursor' = IF Restored(req) THEN srvCursor ELSE emitted
                   /\ subStart' = IF subStart = -1 THEN srvCursor' ELSE subStart
                   /\ UNCHANGED initMsg
                   /\ UNCHANGED <<accessToken, minted, backoffSeconds, exitCode, exitMsg,
                                  nReports>>
              ELSE /\ UNCHANGED <<newConn, conn, connVars, srvCursor, subStart>>
                   /\ CASE d.do = "return" ->
                             /\ SetupFailedExit("Failed to authorize client")
                             /\ UNCHANGED <<accessToken, minted, backoffSeconds>>
                        [] d.do = "refresh" ->
                             \E ok \in BOOLEAN :
                               IF ok
                               THEN /\ Minted
                                    /\ UNCHANGED <<pc, backoffSeconds, exitCode, exitMsg,
                                                   nReports>>
                               ELSE /\ Exit(1, "Access token request failed")
                                    /\ UNCHANGED <<accessToken, minted, backoffSeconds>>
                        [] d.do = "sleep" /\ RetryAllowed(nAttempts') ->
                             /\ pc' = "sleep"
                             /\ backoffSeconds' = d.seconds
                             /\ UNCHANGED <<accessToken, minted, exitCode, exitMsg,
                                            nReports>>
                        [] d.do = "sleep" /\ ~RetryAllowed(nAttempts') ->
                             /\ SetupFailedExit("Failed to connect to push service")
                             /\ UNCHANGED <<accessToken, minted, backoffSeconds>>
                        [] d.do = "retry" ->
                             UNCHANGED <<pc, accessToken, minted, backoffSeconds,
                                         exitCode, exitMsg, nReports>>
  /\ UNCHANGED <<globalVars, currReconnectToken, caller, reconnectToken,
                 subscriptionArg, readErr, delivered, emitted, srvToken, srvOK,
                 readVars, keepAliveVars, signalVars>>

\* time.Sleep returns: the loop goes round.
Wake ==
  /\ pc = "sleep"
  /\ pc' = "websocketConnectLoop"
  /\ backoffSeconds' = 0
  /\ dialErr' = NoDialErr
  /\ UNCHANGED <<globalVars, serverVars, requestVars, currReconnectToken, conn,
                 caller, reconnectToken, subscriptionArg, accessToken, minted,
                 newConn, readErr, exitCode, exitMsg, connVars, delivered,
                 readVars, nReports, keepAliveVars, signalVars>>

\* The frames the peer may send next on the newest connection: garbage, the next
\* event of the subscriber's stream, and (as a first frame) an init message.
NextPushFrames == IF srvCursor < emitted THEN {PushFrame(srvCursor + 1)} ELSE {}
FirstFrames == {InitFrame(t) : t \in {Nil} \cup Tokens} \cup {GarbageFrame} \cup NextPushFrames
LaterFrames == {GarbageFrame} \cup NextPushFrames

\* The server's side of sending frame f as the first frame of a connection.
ServerSendsFirst(f) ==
  /\ srvToken' = IF f.json = "init" THEN f.token ELSE srvToken
  /\ srvCursor' = IF f.json = "push" THEN f.ev ELSE srvCursor
  /\ srvOK' = (srvOK /\ f.json = "init" /\ f.token # Nil)

\* TRUE when setupPushServiceConnection gives up on a decode error of the init
\* message (the bearer client ignores json.Unmarshal's error).
InitUnmarshalFails(m) == variant = "secret" /\ m.err

\* Mutant: the init message is handed on like a push message.
PrintInitMsg_AsPush(f) ==
  Append(delivered, [ev |-> f.ev, conn |-> newConn, first |-> firstFramePending])

\* printJsonWithTag("INIT MSG", initMsg): the init message is shown under its own
\* tag and is not handed on as a push message.
PrintInitMsg(f) == delivered

\* Mutant: setupPushServiceConnection reports success with a nil handle.
ReturnedConn_Nil(c) == 0

\* The handle a successful setupPushServiceConnection returns: the one its
\* websocketConnectLoop dialed and readInitMessage read the init message from.
ReturnedConn(c) == c

\* Where the thread goes when setupPushServiceConnection has returned a handle:
\* main goes on to start the two loops, messageReadLoop continues its loop.
AfterSetup == IF caller = "main" THEN "goKeepAliveLoop" ELSE "messageReadLoop"

\* readInitMessage and the rest of setupPushServiceConnection, up to the caller's
\* assignment of the returned handle to the global conn.
ReadInit ==
  /\ pc = "readInitMessage"
  /\ readFrom' = newConn
  /\ \/ \E e \in {CloseError(c) : c \in CloseCodes} \cup {IOError} :
          /\ readErr' = e
          /\ closeReason' = IF IsCloseError(e) THEN readInitMessageErrMsg(e.Code) ELSE NoReason
          /\ SetupFailedExit("Failed to read initial message from server")
          /\ conn' = SetupFailedConn
          /\ UNCHANGED <<currReconnectToken, connVars, serverVars, delivered, message,
                         dropped, retired>>
     \/ \E f \in FirstFrames :
          LET m == UnmarshalInit(f)
          IN  /\ readErr' = NoErr
              /\ firstFramePending' = FALSE
              /\ initConsumed' = initConsumed + 1
              /\ initMsg' = f
              /\ ServerSendsFirst(f)
              /\ UNCHANGED <<emitted, subStart, closeReason>>
              /\ IF InitUnmarshalFails(m)
                 THEN /\ SetupFailedExit("Failed to unmarshal init response")
                      /\ conn' = SetupFailedConn
                      /\ UNCHANGED <<currReconnectToken, delivered, message, dropped,
                                     retired>>
                 ELSE /\ currReconnectToken' = StoredReconnectToken(m, currReconnectToken)
                      /\ conn' = ReturnedConn(newConn)
                      /\ retired' = IF conn = 0 THEN retired ELSE retired \cup {conn}
                      /\ message' = NoFrame
                      /\ dropped' = FALSE
                      /\ delivered' = PrintInitMsg(f)
                      /\ pc' = AfterSetup
                      /\ UNCHANGED <<exitCode, exitMsg, nReports>>
  /\ UNCHANGED <<globalVars, requestVars, caller, reconnectToken, subscriptionArg,
                 accessToken, minted, newConn, backoffSeconds, dialErr,
                 keepAliveVars, signalVars>>

\* main's "go keepAliveLoop()": the keepalive goroutine starts with its first sleep.
GoKeepAliveLoop ==
  /\ pc = "goKeepAliveLoop"
  /\ pc' = "goMessageReadLoop"
  /\ kaPc' = "sleep"
  /\ UNCHANGED <<globalVars, serverVars, requestVars, currReconnectToken, conn,
                 caller, reconnectToken, subscriptionArg, accessToken, minted,
                 newConn, backoffSeconds, readErr, dialErr, exitCode, exitMsg,
                 connVars, delivered, readVars, nReports, kaConn, signalVars>>

\* main's "go messageReadLoop()"; main itself then waits for ever.
GoMessageReadLoop ==
  /\ pc = "goMessageReadLoop"
  /\ pc' = "messageReadLoop"
  /\ UNCHANGED <<globalVars, serverVars, requestVars, currReconnectToken, conn,
                 caller, reconnectToken, subscriptionArg, accessToken, minted,
                 newConn, backoffSeconds, readErr, dialErr, exitCode, exitMsg,
                 connVars, delivered, readVars, nReports, keepAliveVars, signalVars>>

\* The exit status of messageReadLoop on a read error that is no CloseError.
ReadFailedExit ==
  Exit(IF variant = "secret" THEN 1 ELSE 3, "Failed to read message")

\* Mutant: the read loop gives up on a close code the specification calls fatal.
OnCloseError_FatalExits(code) ==
  IF code \in FatalCloseCodes THEN "exit" ELSE "reconnect"

\* What the read loop does with a CloseError: "reconnect" for every close code.
OnCloseError(code) == "reconnect"

\* Mutant: the read loop keeps the handle it started with.
ReadLoopHandle_Captured == IF retired = {} THEN conn ELSE CHOOSE c \in retired : TRUE

\* The handle messageReadLoop calls ReadMessage on: the global conn, evaluated
\* anew in every iteration.
ReadLoopHandle == conn

\* Mutant: a frame that fails to decode ends the process.
OnDecodeError_Fatal == "fatal"

\* What the read loop does with a frame that fails to decode: it logs the frame
\* and continues with the next read.
OnDecodeError == "continue"

\* Mutant: a decoded frame is printed twice.
PrintMsg_Twice(f) ==
  LET e == [ev |-> f.ev, conn |-> conn, first |-> firstFramePending]
  IN  Append(Append(delivered, e), e)

\* printJsonWithTag("MSG", message): the frame is handed to the consumer.
PrintMsg(f) ==
  Append(delivered, [ev |-> f.ev, conn |-> conn, first |-> firstFramePending])

\* Mutant: every read error starts a reconnect.
OnReadError_Reconnects == "reconnect"

\* What messageReadLoop does with a read error that is no *websocket.CloseError:
\* it reports the error and ends the process.
OnReadError == "fatal"

\* Mutant: the loop goes on reading while setupPushServiceConnection sleeps.
ReadLoopReading_WhileSleeping == pc \in {"messageReadLoop", "sleep"}

\* messageReadLoop calls conn.ReadMessage only at the top of its loop; the call
\* of setupPushServiceConnection in its CloseError branch returns before the
\* loop goes round.
ReadLoopReading == pc = "messageReadLoop"

\* One iteration of messageReadLoop: a blocking conn.ReadMessage and what follows.
ReadMessage ==
  /\ ReadLoopReading
  /\ readFrom' = ReadLoopHandle
  /\ \/ \E c \in CloseCodes :
          /\ readErr' = CloseError(c)
          /\ message' = NoFrame
          /\ dropped' = FALSE
          /\ IF OnCloseError(c) = "reconnect"
             THEN pc' = "reconnect" /\ UNCHANGED <<exitCode, exitMsg, nReports>>
             ELSE Exit(1, "Server closed connection")
          /\ UNCHANGED <<connVars, delivered, srvCursor>>
     \/ /\ readErr' = IOError
        /\ message' = NoFrame
        /\ dropped' = FALSE
        /\ IF OnReadError = "fatal"
           THEN ReadFailedExit
           ELSE pc' = "reconnect" /\ UNCHANGED <<exitCode, exitMsg, nReports>>
        /\ UNCHANGED <<connVars, delivered, srvCursor>>
     \/ \E f \in LaterFrames :
             /\ readErr' = NoErr
             /\ message' = f
             /\ firstFramePending' = FALSE
             /\ UNCHANGED <<initConsumed, initMsg>>
             /\ srvCursor' = IF f.json = "push" THEN f.ev ELSE srvCursor
             /\ IF tryUnmarshalJSONAsPushMessage(f)
                THEN /\ dropped' = TRUE
                     /\ delivered' = delivered
                     /\ IF OnDecodeError = "continue"
                        THEN UNCHANGED <<pc, exitCode, exitMsg, nReports>>
                        ELSE Exit(1, "Failed to unmarshal incoming message")
                ELSE /\ dropped' = dropped
                     /\ delivered' = PrintMsg(f)
                     /\ UNCHANGED <<pc, exitCode, exitMsg, nReports>>
  /\ UNCHANGED <<globalVars, requestVars, currReconnectToken, conn, caller,
                 reconnectToken, subscriptionArg, accessToken, minted, newConn,
                 backoffSeconds, dialErr, emitted, srvToken, subStart, srvOK,
                 retired, closeReason, keepAliveVars, signalVars>>

\* messageReadLoop calls setupPushServiceConnection with the stored token; err
\* now stands for the result of that call.
CallSetupFromReadLoop ==
  /\ pc' = "websocketConnectLoop"
  /\ readErr' = NoErr
  /\ caller' = "messageReadLoop"
  /\ reconnectToken' = ReconnectTokenArg
  /\ subscriptionArg' = subscriptionIDOrName

\* Mutant: the read loop reconnects with the access token it has.
ReconnectMints_Never == variant \notin Variants

\* Whether the CloseError branch of messageReadLoop calls requestAccessToken
\* before setupPushServiceConnection: the bearer client's does.
ReconnectMints == variant = "bearer"

\* The CloseError branch of messageReadLoop: the close is logged and the
\* reconnect begins; the bearer client first mints a new access token.
Reconnect ==
  /\ pc = "reconnect"
  /\ IF ~ReconnectMints
     THEN CallSetupFromReadLoop
     ELSE /\ pc' = "requestAccessToken"
          /\ UNCHANGED <<caller, reconnectToken, subscriptionArg, readErr>>
  /\ UNCHANGED <<globalVars, serverVars, requestVars, currReconnectToken, conn,
                 accessToken, minted, newConn, backoffSeconds, dialErr, exitCode,
                 exitMsg, connVars, delivered, readVars, nReports, keepAliveVars,
                 signalVars>>

\* Bearer client: requestAccessToken before the reconnect; a failure ends the
\* process with status 2.
RequestAccessToken ==
  /\ pc = "requestAccessToken"
  /\ \E ok \in BOOLEAN :
       IF ok
       THEN /\ Minted
            /\ CallSetupFromReadLoop
            /\ UNCHANGED <<exitCode, exitMsg, nReports>>
       ELSE /\ Exit(2, "Access token request failed")
            /\ UNCHANGED <<accessToken, minted, caller, reconnectToken,
                           subscriptionArg, readErr>>
  /\ UNCHANGED <<globalVars, serverVars, requestVars, currReconnectToken, conn,
                 newConn, backoffSeconds, dialErr, connVars, delivered, readVars,
                 keepAliveVars, signalVars>>

\* The server emits the next push event of the subscription.
Emit ==
  /\ emitted < MaxEvents
  /\ emitted' = emitted + 1
  /\ UNCHANGED <<globalVars, requestVars, currReconnectToken, conn, pc, caller,
                 reconnectToken, subscriptionArg, accessToken, minted, newConn,
                 backoffSeconds, readErr, dialErr, exitCode, exitMsg, connVars,
                 delivered, srvToken, srvCursor, subStart, srvOK, readVars,
                 nReports, keepAliveVars, signalVars>>

\* ------------------------------------------- the goroutines beside the thread

\* Everything the main / read-loop thread and the server own, except the thread's
\* position and the process's exit record.
sessionVars ==
  <<globalVars, serverVars, requestVars, connVars, readVars, currReconnectToken,
    conn, caller, reconnectToken, subscriptionArg, accessToken, minted, newConn,
    backoffSeconds, readErr, dialErr, delivered>>

\* Mutant: goroutines outlive os.Exit.
Running_Always == TRUE

\* os.Exit ends every goroutine: nothing runs once the process has exited.
Running == pc # "exit"

\* Mutant: a failed ping is fatal.
OnPingError_Fatal == "fatal"

\* What keepAliveLoop does when WriteControl returns an error: it logs the error
\* and continues with its next sleep.
OnPingError == "continue"

\* Mutant: keepAliveLoop keeps the handle it saw first.
KeepAliveHandle_Captured == IF retired = {} THEN conn ELSE CHOOSE c \in retired : TRUE

\* The handle keepAliveLoop pings: it reads the global conn at every tick.
KeepAliveHandle == conn

\* Mutant: keepAliveLoop does not look whether conn is nil.
HandleInstalled_Unchecked == conn = conn

\* keepAliveLoop's test "conn != nil".
HandleInstalled == conn # 0

\* keepAliveLoop: time.Sleep returns and the loop looks at the global conn; with
\* a handle there it calls WriteControl(PingMessage) on it, else it sleeps again.
KeepAliveTick ==
  /\ Running
  /\ kaPc = "sleep"
  /\ IF HandleInstalled
     THEN kaPc' = "write" /\ kaConn' = KeepAliveHandle
     ELSE UNCHANGED <<kaPc, kaConn>>
  /\ UNCHANGED <<sessionVars, pc, exitCode, exitMsg, nReports, signalVars>>

\* keepAliveLoop: WriteControl returns, with or without an error.
KeepAliveWrite ==
  /\ Running
  /\ kaPc = "write"
  /\ \E ok \in BOOLEAN : kaPc' = IF ok THEN "sleep" ELSE "logError"
  /\ kaConn' = 0
  /\ UNCHANGED <<sessionVars, pc, exitCode, exitMsg, nReports, signalVars>>

\* keepAliveLoop: the error of WriteControl is logged and the loop continues.
KeepAliveLogError ==
  /\ Running
  /\ kaPc = "logError"
  /\ IF OnPingError = "continue"
     THEN kaPc' = "sleep" /\ UNCHANGED <<pc, exitCode, exitMsg, nReports>>
     ELSE kaPc' = "sleep" /\ Exit(1, "Failed to send Ping message")
  /\ UNCHANGED <<sessionVars, kaConn, signalVars>>

\* An entry of handlerLog: a DELETE of subscription id, or a call of
\* disconnectWebsocket, which wrote a Close control frame on handle on (none if
\* on is 0, conn being nil).
Request(step, id, on) == [step |-> step, id |-> id, on |-> on]

\* SIGINT or SIGTERM arrives: the handler goroutine's receive returns.
Signal ==
  /\ Running
  /\ sigPc = "armed"
  /\ sigPc' = "deleteSubscription"
  /\ UNCHANGED <<sessionVars, pc, exitCode, exitMsg, nReports, keepAliveVars,
                 handlerLog, handlerErr>>

\* SIGINT or SIGTERM arrives and signal.Notify was never called: the Go runtime
\* ends the process at once; no code of the program runs for it.
SignalUnhandled ==
  /\ Running
  /\ sigPc = "off"
  /\ sigPc' = "killed"
  /\ pc' = "exit"
  /\ UNCHANGED <<sessionVars, exitCode, exitMsg, nReports, keepAliveVars, handlerLog,
                 handlerErr>>

\* Mutant: the handler gives up when deleteSubscription fails.
AfterDeleteSubscription_StopOnError(v, ok) ==
  IF ~ok THEN "osExit" ELSE IF v = "secret" THEN "disconnectWebsocket" ELSE "osExit"

\* The handler's step after deleteSubscription, whether that failed or not:
\* disconnectWebsocket in the secret client, os.Exit in the bearer one.
AfterDeleteSubscription(v, ok) ==
  IF v = "secret" THEN "disconnectWebsocket" ELSE "osExit"

\* Mutant: a failed read also makes the client delete its subscription.
DeletionDue_OnReadError ==
  sigPc = "deleteSubscription" \/ (sigPc = "armed" /\ readErr # NoErr)

\* deleteSubscription is called in one place, the handler goroutine, after its
\* receive from the signal channel has returned.
DeletionDue == sigPc = "deleteSubscription"

\* The handler's deleteSubscription; the secret client logs an error, the bearer
\* client ignores it.
DeleteSubscription ==
  /\ Running
  /\ DeletionDue
  /\ \E ok \in BOOLEAN :
       /\ handlerLog' = Append(handlerLog,
                               Request("deleteSubscription", subscriptionIDOrName, 0))
       /\ handlerErr' = ~ok
       /\ sigPc' = AfterDeleteSubscription(variant, ok)
  /\ UNCHANGED <<sessionVars, pc, exitCode, exitMsg, nReports, keepAliveVars>>

\* Mutant: disconnectWebsocket forgets the handle it closed.
DisconnectedConn_Nil == IF conn # 0 THEN 0 ELSE conn

\* The global conn after disconnectWebsocket: it is not assigned.
DisconnectedConn == conn

\* The handler's disconnectWebsocket (secret client): a Close control frame on
\* the global conn when it is not nil; a failure is logged.
DisconnectWebsocket ==
  /\ Running
  /\ sigPc = "disconnectWebsocket"
  /\ handlerLog' = Append(handlerLog, Request("disconnectWebsocket", "", conn))
  /\ IF conn # 0
     THEN \E ok \in BOOLEAN : handlerErr' = ~ok
     ELSE handlerErr' = FALSE
  /\ conn' = DisconnectedConn
  /\ sigPc' = "osExit"
  /\ UNCHANGED <<globalVars, serverVars, requestVars, connVars, readVars,
                 currReconnectToken, caller, reconnectToken, subscriptionArg,
                 accessToken, minted, newConn, backoffSeconds, readErr, dialErr,
                 delivered, pc, exitCode, exitMsg, nReports, keepAliveVars>>

\* The handler's os.Exit(0): the process ends with the success code and no
\* failure is reported.
ShutdownExit ==
  /\ Running
  /\ sigPc = "osExit"
  /\ pc' = "exit"
  /\ exitCode' = 0
  /\ UNCHANGED <<sessionVars, exitMsg, nReports, keepAliveVars, signalVars>>

Next ==
  \/ Start
  \/ Connect
  \/ Wake
  \/ ReadInit
  \/ GoKeepAliveLoop
  \/ GoMessageReadLoop
  \/ ReadMessage
  \/ Reconnect
  \/ RequestAccessToken
  \/ Emit

Spec == Init /\ [][Next]_vars

\* The runs of ConcurrentSpec start at main's call of setupPushServiceConnection
\* with a reconnect token on the command line and one server token.
ConcurrentInit ==
  /\ Registered
  /\ reconnectTokenFlag = 1
  /\ srvToken = 1

\* The server's Emit in the runs of ConcurrentSpec.
ConcurrentEmit ==
  /\ emitted < ConcurrentMaxEvents
  /\ Emit

\* websocketConnectLoop's iteration in the runs of ConcurrentSpec.
ConcurrentConnect ==
  /\ nAttempts < ConcurrentMaxAttempts
  /\ Connect

ConcurrentNext ==
  \/ Start
  \/ ConcurrentConnect
  \/ Wake
  \/ ReadInit
  \/ GoKeepAliveLoop
  \/ GoMessageReadLoop
  \/ ReadMessage
  \/ Reconnect
  \/ RequestAccessToken
  \/ ConcurrentEmit
  \/ KeepAliveTick
  \/ KeepAliveWrite
  \/ KeepAliveLogError
  \/ Signal
  \/ SignalUnhandled
  \/ DeleteSubscription
  \/ DisconnectWebsocket
  \/ ShutdownExit

ConcurrentSpec == ConcurrentInit /\ [][ConcurrentNext]_vars

\* The server's answers to the POST in the runs of ShutdownSpec: created, exists
\* already, refused.
ShutdownResponses ==
  {CreatedResponse, ExistsResponse, RegisterResponse(StatusInternalServerError, "", "{}")}

\* The runs of ShutdownSpec start at main's registerOrUpdateSubscription, with a
\* reconnect token and either --subscription-file or --subscription-id on the
\* command line, and one server token.
ShutdownInit ==
  /\ Parsed
  /\ reconnectTokenFlag = 1
  /\ srvToken = 1
  /\ (subscriptionFileFlag = "") # (subscriptionIDFlag = "")
  /\ subscriptionFileFlag # "" => registerResp \in ShutdownResponses

\* ShutdownSpec is main from its registration of the subscription on, the read
\* loop, the server and the signal handler.
ShutdownNext ==
  \/ RegisterOrUpdateSubscription
  \/ Start
  \/ ConcurrentConnect
  \/ Wake
  \/ ReadInit
  \/ GoKeepAliveLoop
  \/ GoMessageReadLoop
  \/ ReadMessage
  \/ Reconnect
  \/ RequestAccessToken
  \/ ConcurrentEmit
  \/ Signal
  \/ SignalUnhandled
  \/ DeleteSubscription
  \/ DisconnectWebsocket
  \/ ShutdownExit

ShutdownSpec == ShutdownInit /\ [][ShutdownNext]_vars

\* The steps the main / read-loop thread takes by itself, without waiting for a
\* frame of the peer: the Go scheduler runs the thread, a dial returns at the
\* latest when it times out, a sleep ends.
FairInit ==
  /\ Init
  /\ reconnectTokenFlag = 1
  /\ srvToken = 1

FairSpec ==
  /\ FairInit
  /\ [][Next]_vars
  /\ WF_vars(Start)
  /\ WF_vars(Connect)
  /\ WF_vars(Wake)
  /\ WF_vars(Reconnect)
  /\ WF_vars(RequestAccessToken)

\* RegisterSpec is registerOrUpdateSubscription alone, on every response of the
\* server and every valid combination of flags.
RegisterSpec == Parsed /\ [][RegisterOrUpdateSubscription]_vars

\* The secret client's failed setupPushServiceConnection seen step by step: the
\* caller's "conn, err = setupPushServiceConnection(...)" has assigned the nil
\* handle and holds the error; log.Fatalln has not run yet.
SetupFails ==
  /\ variant = "secret"
  /\ pc = "readInitMessage"
  /\ pc' = "logFatalln"
  /\ readFrom' = newConn
  /\ conn' = SetupFailedConn
  /\ \/ \E e \in {CloseError(c) : c \in CloseCodes} \cup {IOError} :
          /\ readErr' = e
          /\ closeReason' = IF IsCloseError(e) THEN readInitMessageErrMsg(e.Code) ELSE NoReason
          /\ exitMsg' = "Failed to read initial message from server"
          /\ UNCHANGED <<connVars, serverVars>>
     \/ \E f \in {g \in FirstFrames : InitUnmarshalFails(UnmarshalInit(g))} :
          /\ readErr' = NoErr
          /\ firstFramePending' = FALSE
          /\ initConsumed' = initConsumed + 1
          /\ initMsg' = f
          /\ ServerSendsFirst(f)
          /\ exitMsg' = "Failed to unmarshal init response"
          /\ UNCHANGED <<emitted, subStart, closeReason>>
  /\ UNCHANGED <<globalVars, requestVars, currReconnectToken, caller, reconnectToken,
                 subscriptionArg, accessToken, minted, newConn, backoffSeconds,
                 dialErr, delivered, message, dropped, retired, exitCode, nReports,
                 keepAliveVars, signalVars>>

\* The caller's log.Fatalln on that error: the failure is reported and the
\* process ends with status 1.
LogFatalln ==
  /\ pc = "logFatalln"
  /\ Exit(1, exitMsg)
  /\ UNCHANGED <<sessionVars, keepAliveVars, signalVars>>

\* KeepAliveSpec is ConcurrentSpec with the failure of the secret client's setup
\* taken in both ways, as one step and as the two steps between which the
\* other goroutines may run.
KeepAliveNext ==
  \/ ConcurrentNext
  \/ SetupFails
  \/ LogFatalln

KeepAliveSpec == ConcurrentInit /\ [][KeepAliveNext]_vars

TypeOK ==
  /\ variant \in Variants
  /\ currReconnectToken \in {Nil} \cup Tokens
  /\ conn \in 0..MaxAttempts
  /\ newConn \in 0..MaxAttempts
  /\ pc \in {"registerOrUpdateSubscription", "main", "websocketConnectLoop", "sleep", "readInitMessage",
             "logFatalln",
             "goKeepAliveLoop", "goMessageReadLoop", "messageReadLoop",
             "reconnect", "requestAccessToken", "exit"}
  /\ backoffSeconds \in {0, ConnectBackoffSeconds, RateLimitBackoffSeconds}
  /\ nAttempts \in 0..MaxAttempts
  /\ initConsumed \in 0..1
  /\ emitted \in 0..MaxEvents
  /\ srvCursor \in 0..MaxEvents
  /\ Len(delivered) <= MaxEvents
  /\ readFrom \in 0..MaxAttempts
  /\ retired \subseteq 1..MaxAttempts
  /\ nReports \in 0..1
  /\ kaPc \in {"off", "sleep", "write", "logError"}
  /\ kaConn \in 0..MaxAttempts
  /\ sigPc \in {"off", "armed", "killed", "deleteSubscription", "disconnectWebsocket",
               "osExit"}
  /\ Len(handlerLog) <= 2
  /\ subscriptionIDOrName \in {"", NilUUID} \cup UUIDs
  /\ registerResp \in RegisterResponses \cup {RegisterResponse(0, "", "")}
  /\ alreadyExists \in BOOLEAN
  /\ handlerErr \in BOOLEAN

\* ----------------------------------------------------------------- claims

\* C1: when the session is Active and the blocking read returns a CloseError, the
\* session is not terminated: it goes to Reconnecting and then to Connecting, and
\* every upgrade request of the reconnect carries the global subscription
\* identity (the one of every earlier request) and the reconnect token stored by
\* the most recent successful handshake.
C1_ClosedReadReconnects ==
  [][ /\ (pc = "messageReadLoop" /\ IsCloseError(readErr'))
         => /\ pc' = "reconnect"
            /\ exitCode' = -1
            /\ currReconnectToken' = currReconnectToken
            /\ subscriptionIDOrName' = subscriptionIDOrName
      /\ (pc = "reconnect" /\ pc' # "reconnect") => State' = "Connecting"
      /\ (caller = "messageReadLoop" /\ nAttempts' = nAttempts + 1)
         => /\ lastReq'.reconnect_token = currReconnectToken
            /\ lastReq'.subscription_id = subscriptionIDOrName
            /\ Cardinality(reqSubs') = 1 ]_vars

C1_Witness ==
  /\ caller = "messageReadLoop"
  /\ pc = "readInitMessage"
  /\ currReconnectToken # Nil
  /\ lastReq.reconnect_token = currReconnectToken

\* C2: with a server that issues a reconnect token in every init message and
\* restores the subscriber's delivery state from the token presented, the frames
\* handed to the consumer are exactly the events the server has sent to the
\* subscriber since the session's first connection, each once and in order,
\* across every disconnect and reconnect.
C2_NoLossNoDuplicate ==
  (srvOK /\ subStart # -1)
    => /\ Len(delivered) = srvCursor - subStart
       /\ \A i \in 1..Len(delivered) : delivered[i].ev = subStart + i

C2_Witness ==
  /\ srvOK
  /\ \E i, j \in 1..Len(delivered) : delivered[i].conn < delivered[j].conn

\* C3 as stated: after the peer closes an Active connection with a fatal
\* application close code the session is Terminated (it never is Reconnecting or
\* Connecting with that close as its last read result).
C3_FatalCloseTerminates ==
  (IsCloseError(readErr) /\ readErr.Code \in FatalCloseCodes) => pc = "exit"

\* C3 as amended: a close of an Active connection with a fatal application close
\* code does not terminate the session and reports nothing; as for every other
\* close code the session goes to Reconnecting and keeps the stored token.
C3_FatalCloseReconnects ==
  [][ (pc = "messageReadLoop" /\ IsCloseError(readErr')
       /\ readErr'.Code \in FatalCloseCodes)
      => /\ pc' = "reconnect"
         /\ exitCode' = -1
         /\ exitMsg' = ""
         /\ currReconnectToken' = currReconnectToken ]_vars

C3_Witness ==
  /\ pc = "reconnect"
  /\ readErr = CloseError(CloseUnknownSubscriptionID)

\* C4: every upgrade request (the first, every retry after a backoff, every
\* reconnect) presents the token stored by the most recent successful handshake,
\* or the parsed --reconnect-token flag while no handshake has succeeded; and the
\* stored token changes only in a successful handshake.
C4_AttemptsCarryToken ==
  [][ /\ (nAttempts' = nAttempts + 1)
         => lastReq'.reconnect_token =
              (IF conn = 0 THEN FromString(reconnectTokenFlag) ELSE currReconnectToken)
      /\ (currReconnectToken' # currReconnectToken)
         => (pc = "readInitMessage" /\ State' = "Active") ]_vars

C4_Witness ==
  /\ conn = 0
  /\ nAttempts >= 2
  /\ pc = "sleep"
  /\ lastReq.reconnect_token = 1

\* C5: every successful handshake sets the stored reconnect token to the value
\* the init frame carries, whatever was stored before, the zero token included.
C5_HandshakeStoresToken ==
  [][ (pc = "readInitMessage" /\ State' = "Active")
      => currReconnectToken' = initMsg'.token ]_vars

C5_Witness ==
  /\ pc = "messageReadLoop"
  /\ initMsg = InitFrame(Nil)
  /\ currReconnectToken = Nil
  /\ lastReq.reconnect_token # Nil

\* C6: on every connection exactly one frame, the first, is consumed by
\* readInitMessage before the read loop reads from it, and no first frame of a
\* connection is ever handed to the consumer.
C6_InitFrameConsumedOnce ==
  /\ \A i \in 1..Len(delivered) : ~delivered[i].first
  /\ pc = "messageReadLoop"
       => (initConsumed = 1 /\ ~firstFramePending /\ conn = newConn)

C6_Witness ==
  \E i \in 1..Len(delivered) : delivered[i].conn >= 2

\* C7: while awaiting the handshake, a first frame that cannot be read or cannot
\* be parsed, or a close by the peer, terminates the session; the session never
\* becomes Active on that connection.
C7_BadHandshakeTerminates ==
  [][ (pc = "readInitMessage" /\ pc' # "readInitMessage"
       /\ (readErr'.type # "nil" \/ UnmarshalInit(initMsg').err))
      => pc' = "exit" ]_vars

\* C8: a read that ends with close code 4005 (InvalidReconnectToken), on a
\* connection whose upgrade request presented a reconnect token, does not
\* terminate the session, and the connection attempt that follows is made with no
\* reconnect token.
C8_InvalidTokenRetriesWithoutToken ==
  [][ /\ (readErr' # readErr /\ IsCloseError(readErr')
          /\ readErr'.Code = CloseInvalidReconnectToken
          /\ lastReq.reconnect_token # Nil)
         => pc' # "exit"
      /\ (IsCloseError(readErr) /\ readErr.Code = CloseInvalidReconnectToken
          /\ pc # "websocketConnectLoop" /\ pc' = "websocketConnectLoop")
         => reconnectToken' = Nil ]_vars

\* C9: after an upgrade rejected with HTTP 429 the connect loop sleeps the fixed
\* 30 seconds, with the credential it had (no termination, no refresh).
C9_RateLimitedSleeps30 ==
  (dialErr.HttpStatus = StatusTooManyRequests)
    => /\ pc = "sleep"
       /\ backoffSeconds = RateLimitBackoffSeconds
       /\ Credential = lastReq.cred

\* C10: in the bearer client, after an upgrade rejected with HTTP 401 the connect
\* loop is back at its top with a freshly minted access token and no sleep, or
\* the process has exited because the mint failed.
C10_UnauthorizedRefreshes ==
  (variant = "bearer" /\ dialErr.HttpStatus = StatusUnauthorized)
    => \/ /\ pc = "websocketConnectLoop"
          /\ backoffSeconds = 0
          /\ accessToken # lastReq.cred.access_token
       \/ pc = "exit"

\* The backoff table of the specification for an expiring-token credential: the
\* delay, whether the credential is refreshed first, whether the failure is fatal.
BackoffPolicy(err) ==
  CASE err.HttpStatus = StatusTooManyRequests ->
         [delaySeconds |-> 30, refreshCredential |-> FALSE]
    [] err.HttpStatus = StatusUnauthorized ->
         [delaySeconds |-> 0, refreshCredential |-> TRUE]
    [] OTHER ->
         [delaySeconds |-> 5, refreshCredential |-> FALSE]

\* C11: a connection upgrade that fails without an HTTP response makes the connect
\* loop sleep the fixed 5 seconds and then go round again with the same
\* arguments; the process does not exit.
C11_TransportErrorSleeps5 ==
  [][ /\ (nAttempts' = nAttempts + 1 /\ dialErr'.type = "error")
         => /\ pc' = "sleep"
            /\ backoffSeconds' = ConnectBackoffSeconds
            /\ exitCode' = -1
      /\ (pc = "sleep" /\ dialErr.type = "error" /\ pc' # "sleep")
         => /\ pc' = "websocketConnectLoop"
            /\ reconnectToken' = reconnectToken
            /\ subscriptionArg' = subscriptionArg
            /\ exitCode' = -1 ]_vars

C11_Witness ==
  /\ pc = "sleep"
  /\ dialErr.type = "error"
  /\ backoffSeconds = ConnectBackoffSeconds
  /\ caller = "messageReadLoop"
  /\ nAttempts >= 2

\* C12: in the bearer client the decision after a failed upgrade is the table
\* entry of that failure alone: 30 s for a 429, 5 s for a failure without an
\* HTTP response, no delay and a fresh access token (or the exit of a failed
\* mint) for a 401.
C12_BackoffIsLookup ==
  [][ (variant = "bearer" /\ nAttempts' = nAttempts + 1 /\ dialErr'.type # "nil"
       /\ dialErr'.HttpStatus \in {0, StatusTooManyRequests, StatusUnauthorized})
      => \/ /\ backoffSeconds' = BackoffPolicy(dialErr').delaySeconds
            /\ (accessToken' # accessToken) = BackoffPolicy(dialErr').refreshCredential
         \/ /\ BackoffPolicy(dialErr').refreshCredential
            /\ pc' = "exit" ]_vars

\* C13: a setup failure with a fatal classification ends the process at once: a
\* close of the connection with a fatal close code while the init message is
\* awaited, and in the secret client an upgrade rejected with HTTP 401; there is
\* no sleep and no further upgrade request.
C13_FatalSetupTerminates ==
  [][ /\ (pc = "readInitMessage" /\ IsCloseError(readErr')
          /\ readErr'.Code \in FatalCloseCodes)
         => (pc' = "exit" /\ backoffSeconds' = 0 /\ nReports' = 1)
      /\ (variant = "secret" /\ nAttempts' = nAttempts + 1
          /\ dialErr'.HttpStatus = StatusUnauthorized)
         => (pc' = "exit" /\ backoffSeconds' = 0 /\ nReports' = 1) ]_vars

\* The classification is defined on the whole application range, and a code
\* without a named constant gets the fallback message formatted with that code.
ClassificationTotal ==
  \A c \in ApplicationCloseCodes :
    LET r == readInitMessageErrMsg(c)
    IN  /\ r.errMsg # ""
        /\ c \notin KnownCloseCodes
             => r = [errMsg |-> "Server sent unrecognized error code", code |-> c]

\* C14: readInitMessage's classification of a close code is total on 4000..4999,
\* a function of the code alone, and gives every code that is no named constant
\* the "unrecognized" fallback carrying the code; the process reports the close
\* and exits as for any other close, it does not crash.
C14_ClassificationTotal ==
  /\ ClassificationTotal
  /\ closeReason # NoReason
       => /\ IsCloseError(readErr)
          /\ closeReason = readInitMessageErrMsg(readErr.Code)
          /\ pc = "exit" /\ exitCode = 1 /\ nReports = 1

C14_Witness ==
  closeReason = [errMsg |-> "Server sent unrecognized error code", code |-> CloseUnlisted]

\* C15: a frame that fails to decode, read while Active, is not handed to the
\* consumer and the read loop stays where it is: no exit, no reconnect, no new
\* handle; a well-formed frame read after it from the same connection is handed
\* to the consumer.
C15_MalformedFrameDropped ==
  [][ /\ (pc = "messageReadLoop" /\ message' = GarbageFrame /\ emitted' = emitted)
         => /\ pc' = "messageReadLoop"
            /\ delivered' = delivered
            /\ conn' = conn
            /\ nAttempts' = nAttempts
            /\ exitCode' = -1
      /\ (pc = "messageReadLoop" /\ dropped /\ srvCursor' # srvCursor)
         => /\ conn' = conn
            /\ readFrom' = conn
            /\ delivered' = Append(delivered, [ev |-> message'.ev, conn |-> conn,
                                               first |-> FALSE]) ]_vars

C15_Witness ==
  /\ pc = "messageReadLoop"
  /\ dropped
  /\ message.json = "push"
  /\ delivered[Len(delivered)].ev = message.ev

\* C16: the consumer gets a frame only in an iteration of the one read loop, and
\* then exactly the frame that iteration read and decoded, once, appended after
\* everything handed over before; the read loop is started once, by main, before
\* anything was handed over.
C16_OncePerEventInOrder ==
  [][ /\ (delivered' # delivered)
         => /\ pc = "messageReadLoop" /\ pc' = "messageReadLoop"
            /\ ~tryUnmarshalJSONAsPushMessage(message')
            /\ delivered' = Append(delivered, [ev |-> message'.ev, conn |-> readFrom',
                                               first |-> FALSE])
      /\ (pc = "messageReadLoop" /\ srvCursor' # srvCursor)
         => Len(delivered') = Len(delivered) + 1
      /\ (pc' = "goMessageReadLoop")
         => (caller' = "main" /\ delivered' = <<>> /\ retired' = {}) ]_vars

C16_Witness ==
  /\ Len(delivered) = 2
  /\ delivered[1].ev < delivered[2].ev
  /\ message = PushFrame(delivered[2].ev)

\* C17: whenever the session is Active the global conn is not nil; it is the
\* handle the handshake was completed on.
C17_ActiveHasHandle ==
  State = "Active" => (conn # 0 /\ conn = newConn)

C17_Witness ==
  /\ State = "Active"
  /\ conn = 2
  /\ retired = {1}

\* C18: the session has one current handle, the global conn; a handle that was
\* replaced is older than the current one, is never the current one again, and
\* no ReadMessage is called on it any more.
C18_ReplacedHandleNeverReused ==
  /\ conn \notin retired
  /\ readFrom \notin retired
  /\ \A c \in retired : conn = 0 \/ c < conn
  /\ pc = "messageReadLoop" => readFrom = conn

C18_Witness ==
  /\ retired = {1, 2}
  /\ pc = "messageReadLoop"
  /\ message.json = "push"
  /\ readFrom = 3

\* C19: once the process has exited nothing happens any more, whatever the
\* keepalive loop and the signal handler were doing: no upgrade request, no
\* read, no frame handed to the consumer, no report, no other exit status; and
\* a session that is Terminated has reported exactly one failure.
C19_TerminatedAbsorbing ==
  [][ /\ (pc = "exit")
         => UNCHANGED <<pc, exitCode, exitMsg, nReports, nAttempts, lastReq, readErr,
                        readFrom, message, initMsg, delivered, conn, kaPc, sigPc>>
      /\ (State' = "Terminated") => nReports' = 1
      /\ nReports' <= 1 ]_vars

C19_Witness ==
  /\ State = "Terminated"
  /\ kaPc = "write"
  /\ sigPc = "deleteSubscription"

\* C20: a WriteControl of the keepalive loop that returns an error changes
\* nothing of the session: not the thread's position, the handle, the stored
\* token, the number of upgrade requests or the exit record; the error is logged
\* and the loop goes back to its sleep.
C20_FailedPingChangesNothing ==
  [][ /\ (kaPc = "write" /\ kaPc' = "logError")
         => UNCHANGED <<pc, conn, newConn, currReconnectToken, nAttempts, exitCode,
                        nReports>>
      /\ (kaPc = "logError" /\ kaPc' # "logError")
         => /\ kaPc' = "sleep"
            /\ UNCHANGED <<pc, conn, newConn, currReconnectToken, nAttempts, exitCode,
                           nReports>> ]_vars

C20_Witness ==
  /\ kaPc = "logError"
  /\ pc = "reconnect"


\* C21: once started, keepAliveLoop is stopped by no session state: while the
\* process runs its next step is always possible, also while the read loop is
\* reconnecting.  A tick that pings does so on the handle that is the global
\* conn at that moment (during a reconnect the stale one, after setup installed
\* a new handle the new one, never a replaced one), and no step of the loop
\* moves the session or ends the process.
C21_KeepAliveFollowsHandle ==
  [][ /\ (kaPc # "off" /\ Running) =>
            ENABLED (KeepAliveTick \/ KeepAliveWrite \/ KeepAliveLogError)
      /\ (kaPc = "sleep" /\ kaPc' = "write") =>
            /\ kaConn' = conn
            /\ kaConn' \notin retired
      /\ (kaPc # "off" /\ kaPc' # kaPc) =>
            /\ pc' = pc
            /\ exitCode' = exitCode
            /\ conn' = conn
    ]_vars

\* C21 witness: after a reconnect replaced the handle, a ping is in progress on
\* the new handle.
C21_Witness ==
  /\ kaPc = "write"
  /\ retired # {}
  /\ kaConn = conn
  /\ conn \notin retired

\* C21, the tick during a reconnect: a ping is in progress on the stale handle
\* while the read loop waits for the new connection's handshake.
C21_StalePing ==
  /\ kaPc = "write"
  /\ caller = "messageReadLoop"
  /\ State = "AwaitingHandshake"
  /\ kaConn = conn
  /\ newConn # conn

\* C22: the global conn has one writer.  A step that changes it is the return of
\* setupPushServiceConnection to its caller and no step of keepAliveLoop or of
\* the signal handler; main assigns it once, before the loops are started, and
\* from then on the caller is messageReadLoop.  The handler's
\* disconnectWebsocket writes its Close frame on conn and leaves conn as it was.
C22_SingleWriter ==
  [][ /\ conn' # conn =>
            /\ pc = "readInitMessage"
            /\ UNCHANGED <<keepAliveVars, signalVars>>
            /\ caller = "main" => (conn = 0 /\ kaPc = "off")
            /\ caller # "main" => caller = "messageReadLoop"
      /\ (sigPc = "disconnectWebsocket" /\ sigPc' # sigPc) =>
            /\ conn' = conn
            /\ conn # 0 => handlerLog'[Len(handlerLog')].on = conn
      /\ kaConn' # kaConn => conn' = conn
    ]_vars

\* C22 witness: the read loop has replaced the handle, and both the keepalive
\* loop and the signal handler have sent a control frame on the new one.
C22_Witness ==
  /\ retired # {}
  /\ kaPc = "write"
  /\ kaConn = conn
  /\ sigPc = "osExit"
  /\ Len(handlerLog) = 2
  /\ handlerLog[2].on = conn

\* A reconnect is in progress: messageReadLoop is in its CloseError branch, up
\* to the return of its call of setupPushServiceConnection.
ReconnectInProgress ==
  \/ pc \in {"reconnect", "requestAccessToken"}
  \/ /\ caller = "messageReadLoop"
     /\ pc \in {"websocketConnectLoop", "sleep", "readInitMessage"}

\* C23: reconnects are serialized.  An upgrade request or a token request is
\* made only by the one thread at its connect position, never while an earlier
\* connection still waits for its handshake, never both in one step and never
\* by the keepalive loop or the signal handler; and while a reconnect is in
\* progress nothing is read except the handshake frame of the new connection.
C23_ReconnectsSerialized ==
  [][ /\ (nAttempts' # nAttempts \/ minted' # minted) =>
            /\ pc \in {"websocketConnectLoop", "requestAccessToken"}
            /\ ~firstFramePending
            /\ ~(nAttempts' # nAttempts /\ minted' # minted)
            /\ nAttempts' \in {nAttempts, nAttempts + 1}
            /\ UNCHANGED <<keepAliveVars, signalVars>>
      /\ (ReconnectInProgress /\ pc # "readInitMessage") =>
            UNCHANGED <<readFrom, message, dropped, delivered>>
      /\ (ReconnectInProgress /\ readFrom' # readFrom) =>
            /\ pc = "readInitMessage"
            /\ readFrom' = newConn
            /\ newConn # conn
    ]_vars

\* C23 witness: during a reconnect the second upgrade request has been made
\* and its connection waits for the handshake; the last frame read is still the
\* one read before the close.
C23_Witness ==
  /\ ReconnectInProgress
  /\ pc = "readInitMessage"
  /\ nAttempts = 2
  /\ firstFramePending
  /\ readFrom = conn

\* This run created the subscription: --subscription-file was given and
\* registerSubscription returned a new id without error (the "Registered the
\* subscription" branch of registerOrUpdateSubscription).
CreatedBySession ==
  /\ subscriptionFileFlag # ""
  /\ ~registerSubscription(registerResp).err
  /\ ~registerSubscription(registerResp).alreadyExists
  /\ subscriptionIDOrName = registerSubscription(registerResp).id

\* The signal handler has requested the deletion of the subscription.
DeletionRequested ==
  \E i \in 1..Len(handlerLog) : handlerLog[i].step = "deleteSubscription"

\* The process has ended because of SIGINT or SIGTERM.
ShutDown == pc = "exit" /\ (exitCode = 0 \/ sigPc = "killed")

\* C24: on a shutdown by signal the deletion of the subscription is requested
\* if and only if this run created it: never for an identity given with
\* --subscription-id and never for a subscription that existed on the server.
C24_DeletionIffCreated ==
  /\ DeletionRequested => CreatedBySession
  /\ (ShutDown /\ CreatedBySession) => DeletionRequested

\* A Close control frame has been written on a handle.
CloseFrameSent ==
  \E i \in 1..Len(handlerLog) :
    handlerLog[i].step = "disconnectWebsocket" /\ handlerLog[i].on # 0

\* C25: when the process ends because of a signal while a handle is installed,
\* a Close control frame has been written before the exit, in both clients and
\* whether or not the deletion of the subscription is armed.
C25_CloseFrameBeforeExit ==
  (ShutDown /\ conn # 0) => CloseFrameSent

\* The order of the handler's requests.
HandlerSteps == <<"deleteSubscription", "disconnectWebsocket">>

\* C26: the signal handler of the secret client takes its steps once each and
\* in one order: the DELETE of the subscription, the Close control frame, the
\* exit.  Whether the DELETE or the Close frame failed makes no difference to
\* the step that follows, nothing is repeated, and the exit status is 0.  (The
\* bearer client's handler has the same order without the Close frame.)
C26_HandlerOrder ==
  [][ /\ \A i \in 1..Len(handlerLog') : handlerLog'[i].step = HandlerSteps[i]
      /\ (sigPc = "armed" /\ sigPc' # sigPc) => sigPc' = "deleteSubscription"
      /\ (sigPc = "deleteSubscription" /\ sigPc' # sigPc) =>
            /\ sigPc' = IF variant = "secret" THEN "disconnectWebsocket" ELSE "osExit"
            /\ Len(handlerLog') = 1
            /\ handlerLog'[1].id = subscriptionIDOrName
      /\ (sigPc = "disconnectWebsocket" /\ sigPc' # sigPc) =>
            /\ sigPc' = "osExit"
            /\ Len(handlerLog') = 2
            /\ handlerLog'[2].on = conn
      /\ sigPc \in {"osExit", "killed"} => sigPc' = sigPc
      /\ (exitCode # 0 /\ exitCode' = 0) =>
            /\ sigPc = "osExit"
            /\ Len(handlerLog) = IF variant = "secret" THEN 2 ELSE 1
            /\ UNCHANGED <<handlerLog, nReports, exitMsg>>
    ]_vars

\* C26 witness: the secret client has exited with status 0 after its handler
\* requested the deletion and wrote the Close frame, and the Close frame failed.
C26_Witness ==
  /\ variant = "secret"
  /\ ShutDown
  /\ exitCode = 0
  /\ Len(handlerLog) = 2
  /\ handlerLog[2].on # 0
  /\ handlerErr

\* C27: when conn.ReadMessage in messageReadLoop returns an error that is no
\* CloseError, the session is Terminated by that very step: the failure is
\* reported, the process ends with a failure status, and no upgrade request and
\* no token request is made then or afterwards.
C27_ReadErrorTerminates ==
  [][ /\ (pc = "messageReadLoop" /\ pc' # pc /\ readErr' = IOError) =>
            /\ State = "Active"
            /\ State' = "Terminated"
            /\ exitCode' = IF variant = "secret" THEN 1 ELSE 3
            /\ nReports' = nReports + 1
            /\ UNCHANGED <<nAttempts, minted, conn, lastReq>>
      /\ (State = "Terminated" /\ readErr = IOError) =>
            UNCHANGED <<pc, nAttempts, minted, conn, lastReq>>
    ]_vars

\* C27 witness: the session is Terminated by a read error on the handle of an
\* Active connection.
C27_Witness ==
  /\ State = "Terminated"
  /\ readErr = IOError
  /\ readFrom = conn
  /\ conn # 0
  /\ exitMsg = "Failed to read message"

\* The dial failures the connect loop is meant to retry: no HTTP response, a
\* rate limit, a server error.
RetryableFailure(err) ==
  \/ err.type = "error"
  \/ err.type = "WebsocketSetupHTTPError"
       /\ err.HttpStatus \in {StatusTooManyRequests, StatusInternalServerError}

\* C28: a retryable failure of the upgrade never ends the session: the loop
\* sleeps and goes round, as often as it takes (the only limit on Connect is
\* the bound MaxAttempts of these runs); every sleep ends in a new iteration,
\* every iteration below the bound makes its attempt, and the loop goes on until
\* an upgrade succeeds; a well-formed init frame on the new connection then
\* makes the session Active.
C28_RetryUntilActive ==
  /\ [][ /\ (pc = "websocketConnectLoop" /\ nAttempts' # nAttempts
               /\ RetryableFailure(dialErr')) =>
                /\ pc' = "sleep"
                /\ backoffSeconds' > 0
                /\ exitCode' = -1
         /\ (pc = "readInitMessage" /\ pc' # pc /\ initMsg'.json = "init"
               /\ initConsumed' # initConsumed) =>
                State' = "Active"
       ]_vars
  /\ [](pc = "websocketConnectLoop" /\ nAttempts < MaxAttempts => ENABLED Connect)
  /\ \A n \in 0..(MaxAttempts - 1) :
        (State = "Connecting" /\ nAttempts = n) ~> (nAttempts = n + 1 \/ pc = "exit")
  /\ (State = "Connecting") ~>
        (pc = "readInitMessage" \/ pc = "exit" \/ nAttempts = MaxAttempts)

\* C28 witness: the session is Active on the connection of the third attempt,
\* after two retryable failures.
C28_Witness ==
  /\ State = "Active"
  /\ nAttempts = MaxAttempts
  /\ conn = MaxAttempts
  /\ retired = {}

\* The names of the query parameters of an upgrade request.
QueryParams(req) == {req.query[i] : i \in 1..Len(req.query)}

\* C29: every upgrade request carries the subscription identity as
\* subscription_id, carries reconnect_token exactly when the reconnect token
\* handed to the connect loop is not nil (and then that token), and carries
\* exactly one credential form: the Abios-Secret header and no access_token in
\* the secret client, the current access token as access_token and no header in
\* the bearer client.
C29_UpgradeRequestShape ==
  [][ (nAttempts' = nAttempts + 1)
        => /\ lastReq'.query[1] = "subscription_id"
           /\ lastReq'.subscription_id = subscriptionIDOrName
           /\ ("reconnect_token" \in QueryParams(lastReq')) <=> (reconnectToken # Nil)
           /\ lastReq'.reconnect_token = reconnectToken
           /\ (lastReq'.header = {"Abios-Secret"}) # ("access_token" \in QueryParams(lastReq'))
           /\ (variant = "secret") <=> (lastReq'.header = {"Abios-Secret"})
           /\ (variant = "bearer")
                <=> /\ "access_token" \in QueryParams(lastReq')
                    /\ lastReq'.cred.access_token = accessToken ]_vars

\* A second or later request of the bearer client whose URL has all three
\* parameters and which has no secret header.
C29_Witness ==
  /\ variant = "bearer"
  /\ nAttempts >= 2
  /\ lastReq.query = <<"subscription_id", "reconnect_token", "access_token">>
  /\ lastReq.header = {}
  /\ lastReq.subscription_id \in SubscriptionIDs

\* C30: once registerOrUpdateSubscription has registered the subscription of
\* --subscription-file (the process was not killed before it did), what registerSubscription returned follows the response
\* of the POST: 422 with a Location header holding a valid identifier is no
\* error, alreadyExists true and that identifier; 422 with a missing or invalid
\* Location header is an error with alreadyExists true; any other status than
\* 200 is an error with alreadyExists false; 200 is alreadyExists false and the
\* identifier decoded from the body.  The caller sees alreadyExists as returned
\* and, where it goes on without error, takes the identifier as its own.
C30_RegisterSubscriptionResult ==
  (subscriptionFileFlag # "" /\ pc # "registerOrUpdateSubscription" /\ sigPc # "killed")
    => LET r == registerSubscription(registerResp)
           status == registerResp.StatusCode
           location == registerResp.Location
       IN  /\ (status = StatusUnprocessableEntity /\ location \in UUIDs)
                => (~r.err /\ r.alreadyExists /\ r.id = location)
           /\ (status = StatusUnprocessableEntity /\ location \notin UUIDs)
                => (r.err /\ r.alreadyExists /\ r.id = NilUUID)
           /\ (status \notin {StatusOK, StatusUnprocessableEntity})
                => (r.err /\ ~r.alreadyExists /\ r.id = NilUUID)
           /\ (status = StatusOK)
                => /\ ~r.alreadyExists
                   /\ (registerResp.Body \in UUIDs)
                        => (~r.err /\ r.id = registerResp.Body)
           /\ alreadyExists = r.alreadyExists
           /\ (pc = "main" /\ ~r.err) => subscriptionIDOrName = r.id

\* The registration of a name that exists has returned the identifier of the
\* Location header.
C30_Witness ==
  /\ subscriptionFileFlag # ""
  /\ pc = "main"
  /\ registerResp.StatusCode = StatusUnprocessableEntity
  /\ registerResp.Location = "sub-old"
  /\ alreadyExists
  /\ subscriptionIDOrName = "sub-old"

\* A 422 without a usable Location header has been reported with alreadyExists.
C30_InvalidLocation ==
  /\ subscriptionFileFlag # ""
  /\ pc = "exit"
  /\ registerResp.StatusCode = StatusUnprocessableEntity
  /\ registerResp.Location = "not-a-uuid"
  /\ alreadyExists

\* C31: while the last upgrade attempt is a failed one that no sleep has followed
\* yet, the connect loop is not at its top with the inputs of that attempt: it
\* sleeps 5 or 30 seconds, or (bearer client) it holds an access token other
\* than the one the failed request carried, or the process has ended.  This
\* holds for every HTTP status of the rejection, 401 and 429 or not.
C31_NoImmediateRetry ==
  (dialErr # NoDialErr)
    => \/ /\ pc = "sleep"
          /\ backoffSeconds \in {ConnectBackoffSeconds, RateLimitBackoffSeconds}
       \/ /\ pc = "websocketConnectLoop"
          /\ variant = "bearer"
          /\ accessToken # lastReq.cred.access_token
       \/ pc = "exit"

\* An upgrade rejected with a status that is neither 401 nor 429 is followed by
\* the sleep before the second attempt is made.
C31_Witness ==
  /\ dialErr.HttpStatus = StatusInternalServerError
  /\ pc = "sleep"
  /\ backoffSeconds = ConnectBackoffSeconds
  /\ nAttempts = 1

\* C32: in the bearer client the close of an Active connection leads to
\* requestAccessToken before anything else; that call either mints a token no
\* request has carried and enters the connect loop with it, or ends the process
\* with status 2; no upgrade request is made on the way, and the first request
\* after the close carries the token just minted, not the one of the request
\* that opened the closed connection.
C32_MintBeforeReconnect ==
  [][ (variant = "bearer")
        => /\ (pc = "reconnect" /\ pc' # "exit")
                => /\ pc' \in {"reconnect", "requestAccessToken"}
                   /\ UNCHANGED <<nAttempts, lastReq, accessToken>>
           /\ (pc = "requestAccessToken" /\ pc' # pc)
                => /\ UNCHANGED <<nAttempts, lastReq>>
                   /\ \/ /\ pc' = "websocketConnectLoop"
                         /\ accessToken' = minted'
                         /\ minted' = minted + 1
                         /\ accessToken' # lastReq.cred.access_token
                      \/ /\ pc' = "exit"
                         /\ exitCode' = 2
                         /\ UNCHANGED <<accessToken, minted>>
           /\ (pc' = "websocketConnectLoop" /\ pc # pc' /\ caller' = "messageReadLoop"
                 /\ caller = "main")
                => pc = "requestAccessToken"
           /\ (caller = "messageReadLoop" /\ conn = nAttempts
                 /\ nAttempts' = nAttempts + 1)
                => /\ lastReq'.cred.access_token = minted
                   /\ lastReq'.cred.access_token # lastReq.cred.access_token ]_vars

\* The first request after a close has been made, with the second token.
C32_Witness ==
  /\ variant = "bearer"
  /\ caller = "messageReadLoop"
  /\ conn = 1
  /\ nAttempts = 2
  /\ lastReq.cred.access_token = 2
  /\ minted = 2

\* The registration of the subscription of --subscription-file returned an error,
\* in a client of one of the variants vs.
RegistrationFails(vs) ==
  /\ variant \in vs
  /\ subscriptionFileFlag # ""
  /\ registerSubscription(registerResp).err

\* What the claim asks of registerOrUpdateSubscription's step when the
\* registration fails in a client of one of the variants vs.
FailedRegistrationExits(vs) ==
  (pc = "registerOrUpdateSubscription" /\ pc' # pc /\ sigPc' # "killed"
     /\ RegistrationFails(vs))
    => /\ pc' = "exit"
       /\ exitCode' = 1
       /\ sigPc' = "off"

\* What it asks of every state then.
FailedRegistrationNeverConnects(vs) ==
  RegistrationFails(vs) => (nAttempts = 0 /\ "" \notin reqSubs /\ handlerLog = <<>>)

\* C33: when the registration of the subscription fails, main ends the process
\* with a failure status in that step, with the shutdown handler not armed; no
\* upgrade request is ever made, none with an empty subscription_id in
\* particular, and no deletion is requested.
C33_RegistrationFailureTerminates ==
  /\ [][FailedRegistrationExits(Variants)]_vars
  /\ []FailedRegistrationNeverConnects(Variants)

\* The same for the secret client alone, whose main checks the error.
C33_SecretTerminates ==
  /\ [][FailedRegistrationExits({"secret"})]_vars
  /\ []FailedRegistrationNeverConnects({"secret"})

\* The bearer client has connected with an empty subscription_id after a failed
\* registration, its handler armed.
C33_ConnectedWithoutIdentity ==
  /\ RegistrationFails({"bearer"})
  /\ lastReq.subscription_id = ""
  /\ nAttempts > 0
  /\ sigPc = "armed"
  /\ State = "Active"

\* The handle h is that of a connection whose init message has not been read.
AwaitingHandshake(h) == pc = "readInitMessage" /\ h = newConn

\* The entry disconnectWebsocket has just added to handlerLog, if it has.
ClosedNow(log, log2) ==
  IF Len(log2) > Len(log) /\ log2[Len(log2)].step = "disconnectWebsocket"
  THEN log2[Len(log2)].on
  ELSE 0

\* C34: the global conn changes only to nil or, in the step that read and
\* accepted the init message of a newly opened connection, to the handle of that
\* connection; it is never the handle of a connection that awaits its init
\* message, keepAliveLoop starts no ping on such a handle and
\* disconnectWebsocket writes no close frame on one.
C34_HandleInstalledAfterHandshake ==
  /\ []((conn # 0) => ~AwaitingHandshake(conn))
  /\ [][ /\ (conn' # conn /\ conn' # 0)
            => /\ pc = "readInitMessage"
               /\ conn' = newConn
               /\ readErr' = NoErr
               /\ initConsumed' = 1
               /\ State' = "Active"
         /\ (kaPc' = "write" /\ kaPc # "write")
            => (kaConn' # 0 /\ ~AwaitingHandshake(kaConn'))
         /\ (ClosedNow(handlerLog, handlerLog') # 0)
            => ~AwaitingHandshake(ClosedNow(handlerLog, handlerLog')) ]_vars

\* A ping is being written on the old handle while the connection that replaces
\* it awaits its init message.
C34_Witness ==
  /\ pc = "readInitMessage"
  /\ newConn = 2
  /\ conn = 1
  /\ kaPc = "write"
  /\ kaConn = conn

\* A close frame was written on the old handle while the connection that
\* replaces it awaited its init message.
C34_ClosedOldHandle ==
  /\ pc = "readInitMessage"
  /\ newConn = 2
  /\ handlerLog # <<>>
  /\ handlerLog[Len(handlerLog)] = Request("disconnectWebsocket", "", 1)

\* The first setupPushServiceConnection has returned a handle: conn holds one,
\* or the read loop, which main starts after that, has begun a reconnect.
HasBeenActive == conn # 0 \/ caller = "messageReadLoop"

\* C35: keepAliveLoop is started by main after setupPushServiceConnection has
\* returned the handle of the first connection, and messageReadLoop after it; a
\* ping is begun only by the running keepAliveLoop on the handle it finds in
\* conn, a tick that finds conn nil leaves the loop asleep with nothing
\* written, and a frame is handed on as a push message only by the running
\* read loop.  So before the first handshake there is neither ping nor push
\* frame.
C35_LoopsStartAfterHandshake ==
  /\ []((kaPc # "off" \/ delivered # <<>> \/ message # NoFrame) => HasBeenActive)
  /\ [][ /\ (kaPc = "off" /\ kaPc' # "off")
            => /\ pc = "goKeepAliveLoop"
               /\ caller = "main"
               /\ conn # 0 /\ conn = newConn /\ initConsumed = 1
               /\ kaPc' = "sleep"
         /\ (pc' = "messageReadLoop" /\ pc # pc' /\ caller' = "main")
            => (pc = "goMessageReadLoop" /\ kaPc # "off" /\ conn # 0)
         /\ (kaPc' = "write" /\ kaPc # "write")
            => (kaPc = "sleep" /\ conn # 0 /\ kaConn' = conn)
         /\ (kaPc = "sleep" /\ conn = 0 /\ pc' = pc)
            => (kaPc' = "sleep" /\ kaConn' = 0)
         /\ (delivered' # delivered) => pc = "messageReadLoop" ]_vars

\* keepAliveLoop runs and finds no handle: the secret client's reconnect has
\* failed, its caller has assigned nil to conn and not yet ended the process.
C35_Witness ==
  /\ kaPc = "sleep"
  /\ conn = 0
  /\ pc = "logFatalln"
  /\ caller = "messageReadLoop"
  /\ retired = {}

\* The signal has been received by the handler goroutine, which has not yet
\* ended the process.
ShutdownStarted == sigPc \in {"deleteSubscription", "disconnectWebsocket", "osExit"}

\* C36: once the handler goroutine has received the signal, the read loop's
\* setupPushServiceConnection makes no upgrade request.
C36_NoConnectAfterSignal ==
  [][ (ShutdownStarted /\ caller' = "messageReadLoop") => nAttempts' = nAttempts ]_vars

\* The secret client's handler wrote its close frame on the first handle and has
\* not yet called os.Exit; since then the read loop has made an upgrade request
\* and installed the handle of the new connection.
C36_ReconnectedDuringShutdown ==
  /\ variant = "secret"
  /\ sigPc = "osExit"
  /\ Len(handlerLog) = 2
  /\ handlerLog[2] = Request("disconnectWebsocket", "", 1)
  /\ caller = "messageReadLoop"
  /\ nAttempts = 2
  /\ conn = 2

\* The process was ended by a failure of its own (log.Fatalln or os.Exit with a
\* status other than 0), not by the handler and not by an unhandled signal.
TerminatedByFailure == pc = "exit" /\ exitCode > 0

\* C37: a DELETE of the subscription and a close frame are sent only by a step
\* of the handler goroutine after it received the signal; the step that ends
\* the process on a failed registration, connection setup, handshake or read
\* sends neither, and a process ended by such a failure with no signal received
\* has sent neither.
C37_DeletionOnlyOnShutdown ==
  /\ []((TerminatedByFailure /\ ~ShutdownStarted) => handlerLog = <<>>)
  /\ [][ /\ (handlerLog' # handlerLog)
            => /\ ShutdownStarted
               /\ pc' = pc
               /\ exitCode' = exitCode
         /\ (pc # "exit" /\ pc' = "exit" /\ exitCode' > 0)
            => UNCHANGED <<handlerLog, sigPc>> ]_vars

\* A read failure has ended the process with the handler armed and a handle
\* installed: nothing was deleted and no close frame written.
C37_Witness ==
  /\ TerminatedByFailure
  /\ sigPc = "armed"
  /\ readErr = IOError
  /\ conn # 0
  /\ State = "Terminated"
  /\ handlerLog = <<>>

====
